---- MODULE Spec2Model ----
(* Model of edward/models/distributions.py: the seven concrete Distribution   *)
(* classes and the Variational container that stacks them as layers.          *)
(*                                                                            *)
(* Python lists are objects: `lists` is the heap of list objects, and a       *)
(* Variational's `layers` attribute is a reference into it.  The list written *)
(* as the default value of Variational.__init__'s `layers` parameter is one   *)
(* object, created when the function is defined, and is the heap cell         *)
(* DefaultList.  Tensors are modelled by their shape and by the name of the   *)
(* operation that produced them; numeric parameter values are not modelled.   *)
EXTENDS Integers, Sequences, FiniteSets, TLC

-----------------------------------------------------------------------------
(* Bounds *)

\* layers held by the heap's lists, all lists together
MaxLayers == 2
\* largest factor index given to log_prob_i
MaxIndex == 5
\* largest `size` argument of sample / sample_noise
MaxSize == 2
\* largest last dimension K of a shape given to Multinomial(...)
MaxK == 3

\* the caller's Variational variables
Objs == {"a", "b"}
\* the list object bound to the default value of __init__'s `layers`
DefaultList == "default"
ListIds == {DefaultList} \cup Objs

None == "None"
NoObj == [layers |-> None]
NoRet == [op |-> None]

Indices == 0 .. MaxIndex
\* the shape arguments tried: (K,), (1, K) and (2, K)
Shapes == {<<K>> : K \in 1 .. MaxK} \cup {<<n, K>> : n \in 1 .. 2, K \in 1 .. MaxK}
Sizes == 1 .. MaxSize

-----------------------------------------------------------------------------
(* Distribution classes *)

\* the methods each class statement defines, i.e. cls.__dict__
ClassDict(cls) ==
  CASE cls = "Distribution" -> {"__init__", "sample_noise", "reparam", "sample",
                                "log_prob_i", "entropy"}
    [] cls = "Normal"       -> {"__init__", "__str__", "sample_noise", "reparam",
                                "log_prob_i", "entropy"}
    [] cls = "PointMass"    -> {"__init__", "__str__", "sample", "log_prob_i"}
    [] OTHER                -> {"__init__", "__str__", "sample", "log_prob_i",
                                "entropy"}

\* method resolution: the class's own definition, else the base class's
Resolve(cls, method) ==
  IF method \in ClassDict(cls) THEN cls ELSE "Distribution"

\* K = 0 stands for an object without the attribute K, which only Dirichlet
\* and Multinomial set
DistributionInit(num_factors) ==
  [cls |-> "Distribution", num_factors |-> num_factors, num_vars |-> None,
   num_params |-> None, sample_tensor |-> FALSE, K |-> 0]

BernoulliInit(num_factors) ==
  [DistributionInit(num_factors) EXCEPT
     !.cls = "Bernoulli", !.num_vars = num_factors, !.num_params = num_factors,
     !.sample_tensor = FALSE]

BetaInit(num_factors) ==
  [DistributionInit(num_factors) EXCEPT
     !.cls = "Beta", !.num_vars = num_factors, !.num_params = 2 * num_factors,
     !.sample_tensor = FALSE]

DirichletInit(shape) ==
  [DistributionInit(shape[1]) EXCEPT
     !.cls = "Dirichlet", !.num_vars = shape[Len(shape)] * shape[1],
     !.num_params = shape[Len(shape)] * shape[1], !.K = shape[Len(shape)],
     !.sample_tensor = FALSE]

InvGammaInit(num_factors) ==
  [DistributionInit(num_factors) EXCEPT
     !.cls = "InvGamma", !.num_vars = num_factors, !.num_params = 2 * num_factors,
     !.sample_tensor = FALSE]

\* mutant: the K == 1 check is left out
MultinomialInit_NoCheck(shape) ==
  [DistributionInit(shape[1]) EXCEPT
     !.cls = "Multinomial", !.num_vars = shape[Len(shape)] * shape[1],
     !.num_params = shape[Len(shape)] * shape[1], !.K = shape[Len(shape)],
     !.sample_tensor = FALSE]

\* K = 1 raises before Distribution.__init__ runs: no field is set
MultinomialInit(shape) ==
  IF shape[Len(shape)] = 1
  THEN [raised |-> "ValueError",
        message |-> "Multinomial is not supported for K=1. Use Bernoulli."]
  ELSE [DistributionInit(shape[1]) EXCEPT
          !.cls = "Multinomial", !.num_vars = shape[Len(shape)] * shape[1],
          !.num_params = shape[Len(shape)] * shape[1], !.K = shape[Len(shape)],
          !.sample_tensor = FALSE]

NormalInit(num_factors) ==
  [DistributionInit(num_factors) EXCEPT
     !.cls = "Normal", !.num_vars = num_factors, !.num_params = 2 * num_factors,
     !.sample_tensor = TRUE]

PointMassInit(num_vars) ==
  [DistributionInit(1) EXCEPT
     !.cls = "PointMass", !.num_vars = num_vars, !.num_params = num_vars,
     !.sample_tensor = TRUE]

\* the distribution objects the caller constructs
Pool ==
  {NormalInit(3), NormalInit(0), BernoulliInit(2), BetaInit(1), InvGammaInit(2),
   DirichletInit(<<1, 2>>), MultinomialInit(<<2, 2>>), PointMassInit(2),
   PointMassInit(0)}


-----------------------------------------------------------------------------
(* Distribution methods *)

Raise(exc) == [raised |-> exc]
Raised(r) == "raised" \in DOMAIN r

Tensor(name, shape) == [kind |-> "tensor", name |-> name, shape |-> shape]
NdArray(shape) == [kind |-> "ndarray", shape |-> shape]

\* mutant: the base class's sample_noise returns noise instead of raising
SampleNoise_NeverRaises(d, size) ==
  Tensor("random_normal", <<size, d.num_vars>>)

\* Distribution.sample_noise raises; only Normal overrides it
SampleNoise(d, size) ==
  IF Resolve(d.cls, "sample_noise") = "Normal"
  THEN Tensor("random_normal", <<size, d.num_vars>>)
  ELSE Raise("NotImplementedError")

\* Distribution.reparam raises; Normal's is loc + eps * scale
Reparam(d, eps) ==
  IF Resolve(d.cls, "reparam") = "Normal"
  THEN Tensor("add", eps.shape)
  ELSE Raise("NotImplementedError")

\* Distribution.sample is reparam(sample_noise(size)); PointMass packs its
\* params `size` times; the other overrides fill an ndarray from scipy
DSample(d, size) ==
  CASE Resolve(d.cls, "sample") = "Distribution" ->
         LET eps == SampleNoise(d, size)
         IN IF Raised(eps) THEN eps ELSE Reparam(d, eps)
    [] Resolve(d.cls, "sample") = "PointMass" ->
         Tensor("pack", <<size, d.num_vars>>)
    [] OTHER -> NdArray(<<size, d.num_vars>>)

\* the columns of its xs a distribution reads for factor i, as [lo, hi)
FactorCols(d, i) ==
  IF d.cls \in {"Dirichlet", "Multinomial"}
  THEN <<i * d.K, (i + 1) * d.K>>
  ELSE <<i, i + 1>>

\* mutant: the range check lets i = num_factors through
DLogProbI_OffByOne(d, i) ==
  IF i > d.num_factors
  THEN Raise("IndexError")
  ELSE [density |-> d.cls, factor |-> i, cols |-> FactorCols(d, i)]

\* every concrete log_prob_i: the range check, then the factor's density
DLogProbI(d, i) ==
  IF i >= d.num_factors
  THEN Raise("IndexError")
  ELSE [density |-> d.cls, factor |-> i, cols |-> FactorCols(d, i)]

\* Distribution.entropy raises; every class but PointMass overrides it with
\* the reduce_sum of the closed form over its own parameters
DEntropy(d) ==
  IF Resolve(d.cls, "entropy") = "Distribution"
  THEN Raise("NotImplementedError")
  ELSE [reduce_sum |-> d]

-----------------------------------------------------------------------------
(* Variational *)

RECURSIVE SumOver(_, _)
\* sum([f(layer) for layer in layers]), f one of the three count attributes
SumOver(layers, f) ==
  IF layers = <<>> THEN 0
  ELSE layers[1][f] + SumOver(Tail(layers), f)

HasReparam(layer) == "reparam" \in ClassDict(layer.cls)
\* mutant: the entropy flag tests for reparam, the line above it in add
HasEntropy_TestsReparam(layer) == "reparam" \in ClassDict(layer.cls)
HasEntropy(layer) == "entropy" \in ClassDict(layer.cls)
IsNormal(layer) == layer.cls = "Normal"

\* all([... for layer in self.layers]) for each of the three flags
AllHaveReparam(layers) == \A k \in 1 .. Len(layers) : HasReparam(layers[k])
AllNormal(layers) == \A k \in 1 .. Len(layers) : IsNormal(layers[k])
AllHaveEntropy(layers) == \A k \in 1 .. Len(layers) : HasEntropy(layers[k])

\* Variational.__init__: `ref` is the list object bound to `layers`,
\* `content` its elements when the constructor runs
VariationalInit(ref, content) ==
  IF content = <<>>
  THEN [layers |-> ref, num_factors |-> 0, num_vars |-> 0, num_params |-> 0,
        is_reparam |-> TRUE, is_normal |-> TRUE, is_entropy |-> TRUE,
        sample_tensor |-> <<>>]
  ELSE [layers |-> ref,
        num_factors |-> SumOver(content, "num_factors"),
        num_vars |-> SumOver(content, "num_vars"),
        num_params |-> SumOver(content, "num_params"),
        is_reparam |-> AllHaveReparam(content),
        is_normal |-> AllNormal(content),
        is_entropy |-> AllHaveEntropy(content),
        sample_tensor |-> [k \in 1 .. Len(content) |-> content[k].sample_tensor]]

\* mutant: add counts the layer's parameters as its variables
AddFields_VarsFromParams(self, layer) ==
  [self EXCEPT
     !.num_factors = @ + layer.num_factors,
     !.num_vars = @ + layer.num_params,
     !.num_params = @ + layer.num_params,
     !.is_reparam = @ /\ HasReparam(layer),
     !.is_entropy = @ /\ HasEntropy(layer),
     !.is_normal = @ /\ IsNormal(layer),
     !.sample_tensor = Append(@, layer.sample_tensor)]

\* Variational.add, the object's own attributes (the list is updated in place)
AddFields(self, layer) ==
  [self EXCEPT
     !.num_factors = @ + layer.num_factors,
     !.num_vars = @ + layer.num_vars,
     !.num_params = @ + layer.num_params,
     !.is_reparam = @ /\ HasReparam(layer),
     !.is_entropy = @ /\ HasEntropy(layer),
     !.is_normal = @ /\ IsNormal(layer),
     !.sample_tensor = Append(@, layer.sample_tensor)]

\* the entry Variational.sample makes for one layer
SampleEntry(layer, size) ==
  IF layer.sample_tensor
  THEN DSample(layer, size)
  ELSE Tensor("Placeholder", <<size, layer.num_vars>>)

RECURSIVE Widths(_)
Widths(samples) ==
  IF samples = <<>> THEN 0
  ELSE samples[1].shape[2] + Widths(Tail(samples))

\* tf.concat(1, samples): the entries side by side
Concat1(size, samples) ==
  [kind |-> "tensor", name |-> "concat", shape |-> <<size, Widths(samples)>>,
   cols |-> [k \in 1 .. Len(samples) |->
               <<Widths(SubSeq(samples, 1, k - 1)), Widths(SubSeq(samples, 1, k))>>]]

\* Variational.sample
VSample(layers, size) ==
  LET samples == [k \in 1 .. Len(layers) |-> SampleEntry(layers[k], size)]
  IN [joint |-> Concat1(size, samples), samples |-> samples]

\* mutant: the prefix tested is spelled in lower case
IsPlaceholderName_LowerCase(name) == name = "placeholder"

\* sample.name.startswith('Placeholder'): tf names an op after its type, with
\* a _N suffix to keep names unique
IsPlaceholderName(name) == name = "Placeholder"

Min(x, y) == IF x < y THEN x ELSE y

\* Variational.np_dict: feed_dict, keyed by the position of the entry
NpDict(layers, samples) ==
  LET zipped == 1 .. Min(Len(samples), Len(layers))
      keys == {k \in zipped : IsPlaceholderName(samples[k].name)}
  IN [k \in keys |-> DSample(layers[k], samples[k].shape[1])]

RECURSIVE LogProbIWalk_StartNotAdvanced(_, _, _, _, _)
\* mutant: `start = final` is left out of the loop
LogProbIWalk_StartNotAdvanced(layers, k, i, start, final) ==
  IF k > Len(layers)
  THEN [raised |-> "IndexError", calls |-> <<>>]
  ELSE LET layer == layers[k]
           fin == final + layer.num_vars
       IN IF i < layer.num_factors
          THEN [calls |-> <<[layer |-> k, i |-> i, xs |-> <<start, fin>>]>>,
                value |-> DLogProbI(layer, i)]
          ELSE LogProbIWalk_StartNotAdvanced(layers, k + 1, i - layer.num_factors,
                                             start, fin)

RECURSIVE LogProbIWalk(_, _, _, _, _)
\* the loop of Variational.log_prob_i from layer k on
LogProbIWalk(layers, k, i, start, final) ==
  IF k > Len(layers)
  THEN [raised |-> "IndexError", calls |-> <<>>]
  ELSE LET layer == layers[k]
           fin == final + layer.num_vars
       IN IF i < layer.num_factors
          THEN [calls |-> <<[layer |-> k, i |-> i, xs |-> <<start, fin>>]>>,
                value |-> DLogProbI(layer, i)]
          ELSE LogProbIWalk(layers, k + 1, i - layer.num_factors, fin, fin)

VLogProbI(layers, i) == LogProbIWalk(layers, 1, i, 0, 0)

RECURSIVE EntropyWalk(_, _, _)
\* the loop of Variational.entropy: out starts at the constant 0.0
EntropyWalk(layers, k, out) ==
  IF k > Len(layers)
  THEN [out |-> out]
  ELSE LET h == DEntropy(layers[k])
       IN IF Raised(h)
          THEN h
          ELSE EntropyWalk(layers, k + 1, Append(out, h))

VEntropy(layers) == EntropyWalk(layers, 1, <<>>)

-----------------------------------------------------------------------------
(* State *)

VARIABLES
  lists,   \* the heap of list objects: list id -> its elements
  objs,    \* the caller's Variational objects, NoObj until constructed
  built,   \* history: how each object came by its layers
  ret      \* what the call just made returned or raised, until the caller
           \* takes it

vars == <<lists, objs, built, ret>>

Init ==
  /\ lists = [l \in ListIds |-> <<>>]
  /\ objs = [v \in Objs |-> NoObj]
  /\ built = [v \in Objs |-> [ctor |-> 0, adds |-> 0]]
  /\ ret = NoRet

Live(v) == objs[v] # NoObj
\* the caller is between two calls
Idle == ret = NoRet
LayersOf(v) == lists[objs[v].layers]
HeapLayers == Len(lists[DefaultList]) + Len(lists["a"]) + Len(lists["b"])

\* the list literals of n elements a caller passes to Variational(...)
Literals(n) == [1 .. n -> Pool]

\* v = Variational(): `layers` is bound to the default list object
ConstructDefault(v) ==
  /\ Idle
  /\ ~Live(v)
  /\ objs' = [objs EXCEPT ![v] = VariationalInit(DefaultList, lists[DefaultList])]
  /\ built' = [built EXCEPT ![v] = [ctor |-> Len(lists[DefaultList]), adds |-> 0]]
  /\ ret' = NoRet
  /\ UNCHANGED lists

\* v = Variational([...]): `layers` is bound to a new list object
ConstructWith(v, literal) ==
  /\ Idle
  /\ ~Live(v)
  /\ HeapLayers + Len(literal) <= MaxLayers
  /\ lists' = [lists EXCEPT ![v] = literal]
  /\ objs' = [objs EXCEPT ![v] = VariationalInit(v, literal)]
  /\ built' = [built EXCEPT ![v] = [ctor |-> Len(literal), adds |-> 0]]
  /\ ret' = NoRet

\* v.add(layer)
Add(v, layer) ==
  /\ Idle
  /\ Live(v)
  /\ HeapLayers < MaxLayers
  /\ lists' = [lists EXCEPT ![objs[v].layers] = Append(@, layer)]
  /\ objs' = [objs EXCEPT ![v] = AddFields(@, layer)]
  /\ built' = [built EXCEPT ![v].adds = @ + 1]
  /\ ret' = NoRet

\* joint, samples = v.sample(size)
Sample(v, size) ==
  /\ Idle
  /\ Live(v)
  /\ ret' = [op |-> "sample", obj |-> v, size |-> size,
             out |-> VSample(LayersOf(v), size)]
  /\ UNCHANGED <<lists, objs, built>>

\* v.np_dict(samples), samples being the list v.sample has just returned
CallNpDict(v) ==
  /\ Live(v)
  /\ ret.op = "sample"
  /\ ret.obj = v
  /\ ret' = [op |-> "np_dict", obj |-> v, size |-> ret.size,
             samples |-> ret.out.samples,
             out |-> NpDict(LayersOf(v), ret.out.samples)]
  /\ UNCHANGED <<lists, objs, built>>

\* v.log_prob_i(i, xs)
LogProbI(v, i) ==
  /\ Idle
  /\ Live(v)
  /\ ret' = [op |-> "log_prob_i", obj |-> v, i |-> i,
             out |-> VLogProbI(LayersOf(v), i)]
  /\ UNCHANGED <<lists, objs, built>>

\* v.entropy()
Entropy(v) ==
  /\ Idle
  /\ Live(v)
  /\ ret' = [op |-> "entropy", obj |-> v, out |-> VEntropy(LayersOf(v))]
  /\ UNCHANGED <<lists, objs, built>>

\* a method called on one distribution object d directly, d being layer k of v
LayerCall(v, k, method, arg) ==
  /\ Idle
  /\ Live(v)
  /\ k \in 1 .. Len(LayersOf(v))
  /\ LET d == LayersOf(v)[k]
     IN ret' = [op |-> method, dist |-> d, arg |-> arg,
                out |-> CASE method = "D.sample_noise" -> SampleNoise(d, arg)
                          [] method = "D.reparam" ->
                               Reparam(d, Tensor("random_normal", <<arg, d.num_vars>>))
                          [] method = "D.sample" -> DSample(d, arg)
                          [] method = "D.log_prob_i" -> DLogProbI(d, arg)
                          [] method = "D.entropy" -> DEntropy(d)]
  /\ UNCHANGED <<lists, objs, built>>

\* Multinomial(shape): the new object, or what the constructor raised
NewMultinomial(shape) ==
  /\ Idle
  /\ ret' = [op |-> "Multinomial", arg |-> shape, out |-> MultinomialInit(shape)]
  /\ UNCHANGED <<lists, objs, built>>

\* the caller takes the result of the call, or catches what it raised
Take ==
  /\ ~Idle
  /\ ret' = NoRet
  /\ UNCHANGED <<lists, objs, built>>

Build ==
  \/ \E shape \in Shapes : NewMultinomial(shape)
  \/ \E v \in Objs : ConstructDefault(v)
  \/ \E v \in Objs, n \in 0 .. (MaxLayers - HeapLayers) :
       \E literal \in Literals(n) : ConstructWith(v, literal)
  \/ \E v \in Objs, layer \in Pool : Add(v, layer)

LogProbCalls ==
  \/ \E v \in Objs, i \in Indices : LogProbI(v, i)
  \/ \E v \in Objs, k \in 1 .. MaxLayers, i \in Indices :
       LayerCall(v, k, "D.log_prob_i", i)

SampleCalls ==
  \/ \E v \in Objs, size \in Sizes : Sample(v, size)
  \/ \E v \in Objs : CallNpDict(v)
  \/ \E v \in Objs, k \in 1 .. MaxLayers, size \in Sizes :
       LayerCall(v, k, "D.sample_noise", size)
  \/ \E v \in Objs, k \in 1 .. MaxLayers, size \in Sizes :
       LayerCall(v, k, "D.reparam", size)
  \/ \E v \in Objs, k \in 1 .. MaxLayers, size \in Sizes :
       LayerCall(v, k, "D.sample", size)

EntropyCalls ==
  \/ \E v \in Objs : Entropy(v)
  \/ \E v \in Objs, k \in 1 .. MaxLayers : LayerCall(v, k, "D.entropy", None)

Next == Build \/ LogProbCalls \/ SampleCalls \/ EntropyCalls \/ Take

Spec == Init /\ [][Next]_vars

-----------------------------------------------------------------------------
(* Properties *)

LiveObjs == {v \in Objs : Live(v)}
Prefix(layers, k) == SubSeq(layers, 1, k - 1)
\* F_k and V_k: the factors and the columns of the layers before layer k
FactorsBefore(layers, k) == SumOver(Prefix(layers, k), "num_factors")
VarsBefore(layers, k) == SumOver(Prefix(layers, k), "num_vars")
\* layer k owns global factor index i
Owns(layers, k, i) ==
  /\ FactorsBefore(layers, k) <= i
  /\ i < FactorsBefore(layers, k) + layers[k].num_factors

\* C1: every Variational's num_factors, num_vars and num_params equal the sums
\* of the field over the layers now in its layers list, and its sample_tensor
\* list is the layers' sample_tensor flags in layer order.
C1_AggregatesAreSums ==
  \A v \in LiveObjs :
    /\ objs[v].num_factors = SumOver(LayersOf(v), "num_factors")
    /\ objs[v].num_vars = SumOver(LayersOf(v), "num_vars")
    /\ objs[v].num_params = SumOver(LayersOf(v), "num_params")
    /\ objs[v].sample_tensor =
         [k \in 1 .. Len(LayersOf(v)) |-> LayersOf(v)[k].sample_tensor]

\* C2: log_prob_i(i, xs) with i below the total number of factors makes exactly
\* one call, to the one layer k that owns i, with local index i - F_k and the
\* columns [V_k, V_k + num_vars_k) of xs.
C2_RoutesToOwner ==
  ret.op = "log_prob_i" =>
    LET layers == LayersOf(ret.obj)
        owners == {k \in 1 .. Len(layers) : Owns(layers, k, ret.i)}
    IN (ret.i < objs[ret.obj].num_factors
          \/ ret.i < SumOver(layers, "num_factors")) =>
         /\ ~Raised(ret.out)
         /\ Cardinality(owners) = 1
         /\ \A k \in owners :
              ret.out.calls =
                <<[layer |-> k, i |-> ret.i - FactorsBefore(layers, k),
                   xs |-> <<VarsBefore(layers, k),
                            VarsBefore(layers, k) + layers[k].num_vars>>]>>

\* C2 witness: a call routed to the second layer past a first layer of no factors
C2_Witness ==
  /\ ret.op = "log_prob_i"
  /\ Len(LayersOf(ret.obj)) = 2
  /\ LayersOf(ret.obj)[1].num_factors = 0
  /\ ~Raised(ret.out)
  /\ ret.out.calls[1].layer = 2

\* C3: Variational.log_prob_i with i at or above the total number of factors
\* of its layers raises IndexError without calling a layer, and a
\* distribution's log_prob_i with i at or above its num_factors raises
\* IndexError without evaluating a density.
C3_IndexErrorPastEnd ==
  /\ (ret.op = "log_prob_i"
        /\ ret.i >= SumOver(LayersOf(ret.obj), "num_factors")) =>
       /\ Raised(ret.out)
       /\ ret.out.raised = "IndexError"
       /\ ret.out.calls = <<>>
  /\ (ret.op = "D.log_prob_i" /\ ret.arg >= ret.dist.num_factors) =>
       ret.out = Raise("IndexError")

\* C3 witness: a distribution asked for the factor just past its last one
C3_Witness ==
  /\ ret.op = "D.log_prob_i"
  /\ ret.dist.num_factors > 0
  /\ ret.arg = ret.dist.num_factors
  /\ Raised(ret.out)

\* C4: sample(size) returns one entry per layer in layer order, the layer's
\* own sample(size) where sample_tensor is true and a [size, num_vars]
\* placeholder otherwise; the joint tensor has the Variational's num_vars
\* columns and layer k lies in the columns log_prob_i slices for it.
C4_SampleLayout ==
  ret.op = "sample" =>
    LET layers == LayersOf(ret.obj)
        samples == ret.out.samples
    IN /\ Len(samples) = Len(layers)
       /\ \A k \in 1 .. Len(layers) :
            /\ samples[k] =
                 IF layers[k].sample_tensor
                 THEN DSample(layers[k], ret.size)
                 ELSE Tensor("Placeholder", <<ret.size, layers[k].num_vars>>)
            /\ ret.out.joint.cols[k] =
                 <<VarsBefore(layers, k), VarsBefore(layers, k) + layers[k].num_vars>>
       /\ ret.out.joint.shape = <<ret.size, objs[ret.obj].num_vars>>

\* a layer is sampled inside the graph: Variational.sample emits no
\* placeholder for it
InGraph(layer) == layer.cls \in {"Normal", "PointMass"}

\* C5: is_reparam is true iff every layer is a Normal or a PointMass, that is
\* iff Variational.sample emits no placeholder.
C5_ReparamIffNoPlaceholder ==
  \A v \in LiveObjs :
    /\ objs[v].is_reparam <=> \A k \in 1 .. Len(LayersOf(v)) : InGraph(LayersOf(v)[k])
    /\ objs[v].is_reparam <=>
         \A k \in 1 .. Len(LayersOf(v)) :
           SampleEntry(LayersOf(v)[k], 1).name # "Placeholder"

\* C6: is_entropy is true iff every layer has a closed-form entropy; when it
\* is true entropy() returns the sum over all layers, when it is false
\* entropy() raises.
C6_EntropyFlagGuardsEntropy ==
  /\ \A v \in LiveObjs : objs[v].is_entropy <=> AllHaveEntropy(LayersOf(v))
  /\ ret.op = "entropy" =>
       IF objs[ret.obj].is_entropy
       THEN /\ ~Raised(ret.out)
            /\ ret.out.out = [k \in 1 .. Len(LayersOf(ret.obj)) |->
                                [reduce_sum |-> LayersOf(ret.obj)[k]]]
       ELSE ret.out = Raise("NotImplementedError")

\* C7 as claimed: entropy() of each of the seven variants returns a scalar and
\* never raises, so every Variational has is_entropy = true.
C7_AllSevenHaveEntropy ==
  /\ ret.op = "D.entropy" => ~Raised(ret.out)
  /\ \A v \in LiveObjs : objs[v].is_entropy

\* C7, amended: entropy() raises for a PointMass and for no other variant,
\* which returns the reduce_sum over its own parameters; a Variational none of
\* whose layers is a PointMass has is_entropy = true.
C7_AllButPointMassHaveEntropy ==
  /\ ret.op = "D.entropy" =>
       IF ret.dist.cls = "PointMass"
       THEN ret.out = Raise("NotImplementedError")
       ELSE ret.out = [reduce_sum |-> ret.dist]
  /\ \A v \in LiveObjs :
       (\A k \in 1 .. Len(LayersOf(v)) : LayersOf(v)[k].cls # "PointMass")
         => objs[v].is_entropy

\* C7 witness: a Variational of two layers with is_entropy true, and the
\* entropy of one of its layers returned
C7_Witness ==
  /\ ret.op = "D.entropy"
  /\ ~Raised(ret.out)
  /\ \E v \in LiveObjs :
       /\ Len(LayersOf(v)) = 2
       /\ ret.dist = LayersOf(v)[2]
       /\ objs[v].is_entropy

\* C8: the keys of np_dict(samples) are the entries of the layers with
\* sample_tensor false and no others, and each value is that layer's own
\* sample(size), an array of shape [size, num_vars].
C8_FeedsEveryPlaceholder ==
  ret.op = "np_dict" =>
    LET layers == LayersOf(ret.obj)
    IN /\ DOMAIN ret.out = {k \in 1 .. Len(layers) : ~layers[k].sample_tensor}
       /\ \A k \in DOMAIN ret.out :
            /\ ret.samples[k].name = "Placeholder"
            /\ ret.out[k] = NdArray(<<ret.size, layers[k].num_vars>>)
            /\ ret.out[k].shape = ret.samples[k].shape

\* C8 witness: a feed for a placeholder that follows a tensor entry
C8_Witness ==
  /\ ret.op = "np_dict"
  /\ DOMAIN ret.out = {2}
  /\ ret.samples[1].name # "Placeholder"

Normal3 == NormalInit(3)
Bernoulli2 == BernoulliInit(2)
\* v's layers are a Normal of 3 factors then a Bernoulli of 2, all of them put
\* there by v's constructor or by v's own add calls
IsNormal3Bernoulli2(v) ==
  /\ Live(v)
  /\ LayersOf(v) = <<Normal3, Bernoulli2>>
  /\ built[v].ctor + built[v].adds = 2

\* C9 as claimed: num_factors = 5, num_vars = 5, is_reparam false, and
\* log_prob_i(3, xs) calls the Bernoulli with local index 0 and xs[:, 3:4].
C9_RoutesWithOneColumn ==
  \A v \in Objs : IsNormal3Bernoulli2(v) =>
    /\ objs[v].num_factors = 5
    /\ objs[v].num_vars = 5
    /\ ~objs[v].is_reparam
    /\ (ret.op = "log_prob_i" /\ ret.obj = v /\ ret.i = 3) =>
         ret.out.calls = <<[layer |-> 2, i |-> 0, xs |-> <<3, 4>>]>>

\* C9, amended: num_factors = 5, num_vars = 5, is_reparam false, and
\* log_prob_i(3, xs) calls the Bernoulli with local index 0 and the layer's
\* whole slice xs[:, 3:5], of which the Bernoulli reads column 0, xs[:, 3].
C9_RoutesWithLayerSlice ==
  \A v \in Objs : IsNormal3Bernoulli2(v) =>
    /\ objs[v].num_factors = 5
    /\ objs[v].num_vars = 5
    /\ ~objs[v].is_reparam
    /\ (ret.op = "log_prob_i" /\ ret.obj = v /\ ret.i = 3) =>
         /\ ret.out.calls = <<[layer |-> 2, i |-> 0, xs |-> <<3, 5>>]>>
         /\ ret.out.value = [density |-> "Bernoulli", factor |-> 0, cols |-> <<0, 1>>]

\* C9 witness: log_prob_i(3, xs) on a Variational given the two layers by add
C9_Witness ==
  \E v \in Objs :
    /\ IsNormal3Bernoulli2(v)
    /\ built[v].adds = 2
    /\ ret.op = "log_prob_i" /\ ret.obj = v /\ ret.i = 3

\* C10 as claimed: sample_noise and reparam raise iff sample_tensor is false;
\* where it is true both succeed and sample(size) is reparam(sample_noise(size)).
C10_RaisesIffNotSampleTensor ==
  /\ ret.op \in {"D.sample_noise", "D.reparam"} =>
       (Raised(ret.out) <=> ~ret.dist.sample_tensor)
  /\ (ret.op = "D.sample" /\ ret.dist.sample_tensor) =>
       ret.out = Tensor("add", <<ret.arg, ret.dist.num_vars>>)

\* C10, amended: sample_noise and reparam raise NotImplementedError for every
\* variant but Normal, PointMass included although its sample_tensor is true;
\* Normal.sample(size) is reparam(sample_noise(size)), and PointMass.sample
\* packs its params size times without calling either.
C10_RaisesIffNotNormal ==
  /\ ret.op \in {"D.sample_noise", "D.reparam"} =>
       IF ret.dist.cls = "Normal"
       THEN ~Raised(ret.out) /\ ret.out.shape = <<ret.arg, ret.dist.num_vars>>
       ELSE ret.out = Raise("NotImplementedError")
  /\ ret.op = "D.sample" =>
       ret.out = CASE ret.dist.cls = "Normal" ->
                        Tensor("add", <<ret.arg, ret.dist.num_vars>>)
                   [] ret.dist.cls = "PointMass" ->
                        Tensor("pack", <<ret.arg, ret.dist.num_vars>>)
                   [] OTHER -> NdArray(<<ret.arg, ret.dist.num_vars>>)

\* C10 witness: sample_noise raising on a PointMass
C10_Witness ==
  /\ ret.op = "D.sample_noise"
  /\ ret.dist.cls = "PointMass"
  /\ ret.dist.sample_tensor
  /\ Raised(ret.out)

\* C11: Multinomial(shape) with last dimension K = 1 raises a ValueError whose
\* message says to use Bernoulli, and sets no field of the object; with
\* K >= 2 it does not raise and num_vars = num_params = K * num_factors.
C11_MultinomialRejectsK1 ==
  ret.op = "Multinomial" =>
    LET K == ret.arg[Len(ret.arg)]
    IN IF K = 1
       THEN /\ DOMAIN ret.out = {"raised", "message"}
            /\ ret.out.raised = "ValueError"
            /\ ret.out.message = "Multinomial is not supported for K=1. Use Bernoulli."
       ELSE /\ ~Raised(ret.out)
            /\ ret.out.cls = "Multinomial"
            /\ ret.out.num_factors = ret.arg[1]
            /\ ret.out.num_vars = K * ret.out.num_factors
            /\ ret.out.num_params = K * ret.out.num_factors

\* C11 witness: Multinomial((2, 1)) has raised
C11_Witness ==
  /\ ret.op = "Multinomial"
  /\ ret.arg = <<2, 1>>
  /\ Raised(ret.out)

\* every distribution object and every Variational has at least as many
\* variables as factors
VarsCoverFactors ==
  /\ \A l \in ListIds : \A k \in 1 .. Len(lists[l]) :
       lists[l][k].num_vars >= lists[l][k].num_factors
  /\ \A v \in LiveObjs : objs[v].num_vars >= objs[v].num_factors
  /\ (ret.op = "Multinomial" /\ ~Raised(ret.out)) =>
       ret.out.num_vars >= ret.out.num_factors

\* a step leaves num_vars and num_params of every layer as they were
LayersKeepShape ==
  \A l \in ListIds : \A k \in 1 .. Len(lists[l]) :
    /\ Len(lists'[l]) >= k
    /\ lists'[l][k].num_vars = lists[l][k].num_vars
    /\ lists'[l][k].num_params = lists[l][k].num_params

\* C12: num_vars >= num_factors holds of every distribution constructed and of
\* every Variational, and no call (sample, log_prob_i, entropy, np_dict, add)
\* changes the num_vars or num_params of a distribution.
C12_ShapeMetadata == [][VarsCoverFactors' /\ LayersKeepShape]_vars

\* the part of C12 the code keeps: no step changes a layer's shape metadata
C12_ShapeMetadataFixed == [][LayersKeepShape]_vars

\* a step that is neither w's construction nor an add on w leaves w's layers
\* and attributes as they were
OthersUntouched(w) ==
  (Live(w) /\ built'[w] = built[w]) =>
    /\ objs'[w] = objs[w]
    /\ lists'[objs[w].layers] = lists[objs[w].layers]

\* a step that constructs w without an argument leaves it with no layers and
\* zero aggregates
StartsEmpty(w) ==
  (~Live(w) /\ objs'[w] # NoObj /\ objs'[w].layers = DefaultList) =>
    /\ lists'[DefaultList] = <<>>
    /\ objs'[w].num_factors = 0
    /\ objs'[w].num_vars = 0
    /\ objs'[w].num_params = 0

\* C14: each Variational owns its layer sequence: add on one object changes
\* only that object's layers, aggregates and flags, a Variational constructed
\* without an argument starts with zero layers and zero aggregates, and every
\* object's aggregates stay the sums over its layers.
C14_InstanceIsolation ==
  [][/\ \A w \in Objs : OthersUntouched(w) /\ StartsEmpty(w)
     /\ C1_AggregatesAreSums']_vars

\* the part of C14 the code keeps: a Variational constructed from a list
\* argument is untouched by the steps of other objects
C14_OwnListIsolated ==
  [][\A w \in Objs : (Live(w) /\ objs[w].layers # DefaultList) => OthersUntouched(w)]_vars

====
